---- MODULE Spec2Model ----
(***************************************************************************)
(* The frame-to-batch streaming pipeline of sign-language-pwa:             *)
(*   App          (src/js/app.js)        start / stop / onFrameBatch /     *)
(*                                       checkAPIHealth                    *)
(*   PoseDetector (src/unnamed/part_000) processFrame / extractSkeletalData*)
(*   APIClient    (src/js/apiClient.js)  translate / healthCheck           *)
(* Every await of the JavaScript code is a point where another task of the *)
(* event loop may run; the code between two awaits is one atomic action.   *)
(***************************************************************************)
EXTENDS Integers, Sequences, FiniteSets, TLC

\* ------------------------------------------------------------------ bounds
\* CONFIG.FRAME_BATCH_SIZE (src/config.js:4).  The shipped configuration sets
\* 30; the batch size is configuration, and the model is explored for a small
\* batch size so that several batch releases fit in the explored runs.
FRAME_BATCH_SIZE == 2
\* Number of start() invocations (clicks on the start button) explored.
MaxStarts == 2
\* Total number of pose results (frame extractions) explored, all detectors.
MaxFrames == 5
\* Number of pose results explored when the detection results vary
\* (specification SpecExtract).
MaxDetectFrames == 2

\* ------------------------------------------------------- status messages
StatusChecking == "Checking API connection..."
StatusReady == "Ready to start"
StatusApiFailed == "API connection failed. Check backend."
StatusRequesting == "Requesting camera permission..."
StatusInitializing == "Initializing pose detection..."
StatusActive == "Active - Start signing!"
StatusError == "Error: "
StatusProcessing == "Processing..."
StatusTranslationFailed == "Translation failed. Retrying..."
StatusStopped == "Stopped"
\* The translation and words elements show either the text stop() writes or
\* the result of a batch; a result is denoted by the number of its batch
\* (1, 2, ...) and the texts of stop() by 0:
\* 'Start signing...' (src/js/app.js:114) and '' (src/js/app.js:115).
TranslationPlaceholder == 0
WordsEmpty == 0

Invocations == 1..MaxStarts
\* start() creates one PoseDetector per invocation that gets the camera.
Detectors == 1..MaxStarts

VARIABLES
    isRunning,        \* App.isRunning
    status,           \* elements.status.textContent
    translation,      \* elements.translation.textContent: placeholder or the
                      \*   result of the batch with that number
    words,            \* elements.words.textContent, likewise
    poseDetector,     \* App.poseDetector: 0 (null) or a detector
    startPc,          \* per start() invocation: where it is suspended
    health,           \* checkAPIHealth: "pending", or "ok" / "failed" as
                      \*   the probe's continuation judged the response
    srcObject,        \* video.srcObject: "none", "live" or "ended" tracks
    metaOwner,        \* invocation whose video.onloadedmetadata is installed
    metaLoading,      \* a loadedmetadata event of the video is still to come
    isInitialized,    \* per detector: PoseDetector.isInitialized
    onFrameCallback,  \* per detector: PoseDetector.onFrameCallback is set
    loops,            \* per detector: live processFrame chains
    frameBuffer,      \* per detector: PoseDetector.frameBuffer
    pushed,           \* per detector: records pushed so far (history)
    currentHandsData, \* per detector: PoseDetector.currentHandsData
    currentPoseData,  \* per detector: PoseDetector.currentPoseData
    currentFaceData,  \* per detector: PoseDetector.currentFaceData
    released,         \* batches handed to onFrameCallback, in order (history)
    submitted,        \* batch numbers passed to APIClient.translate (history)
    inFlight,         \* batch numbers whose translate() has not settled
    stale,            \* in-flight batch numbers issued before a stop() (history)
    failed            \* batch numbers whose translate() rejected (history)

vars == <<isRunning, status, translation, words, poseDetector, startPc, health,
          srcObject, metaOwner, metaLoading, isInitialized, onFrameCallback,
          loops, frameBuffer, pushed, currentHandsData, currentPoseData,
          currentFaceData, released, submitted, inFlight, stale, failed>>

appVars == <<isRunning, status, translation, words, poseDetector>>
startVars == <<startPc, srcObject, metaOwner, metaLoading>>
dataVars == <<currentHandsData, currentPoseData, currentFaceData>>
detVars == <<isInitialized, onFrameCallback, loops, frameBuffer, pushed, dataVars>>
subVars == <<released, submitted, inFlight, stale, failed>>

\* -------------------------------------------------------------- helpers
RECURSIVE SumOver(_, _)
SumOver(f, S) ==
    IF S = {} THEN 0
    ELSE LET x == CHOOSE y \in S : TRUE IN f[x] + SumOver(f, S \ {x})

TotalPushed == SumOver(pushed, Detectors)
TotalLoops == SumOver(loops, Detectors)

\* null / undefined, and a value that is there.
Null == [set |-> FALSE, val |-> <<>>]
Some(v) == [set |-> TRUE, val |-> v]

\* A landmark is <<x, y, z>>; a coordinate is an integer number of
\* ten-thousandths (5 is 0.0005, -15 is -0.0015, 20 is 0.002), so that values
\* halfway between two thousandths can be written.
Coords == {-15, 4, 20}
PosePoints == {<<c, 0 - c, 30 - c>> : c \in Coords}
HandPoint == <<-5, 5, 12>>
FacePoint == <<-25, 15, -10>>

\* The face landmarks extractSkeletalData and drawFace pick (lines 125, 172).
keyIndices == <<10, 152, 234, 454, 70, 300>>

\* What one send() may deliver to its onResults handler.  Null: the handler
\* is not called.  Some(Null): a result without landmarks (nothing detected).
\* Some(Some(s)): a result with the landmark lists s.
PoseInputs == {Some(Null)} \cup {Some(Some(<<pt>>)) : pt \in PosePoints}
Hand(label) == [label |-> label, landmarks |-> <<HandPoint>>]
HandsInputs ==
    {Null, Some(Null)} \cup
    {Some(Some(hs)) : hs \in {<<Hand("Left")>>, <<Hand("Right")>>,
                               <<Hand("Left"), Hand("Right")>>,
                               <<Hand("Left"), Hand("Left")>>}}
FaceMesh == [idx \in {keyIndices[k] : k \in 1..Len(keyIndices)} |-> FacePoint]
FaceInputs == {Null, Some(Some(<<>>)), Some(Some(<<FaceMesh>>))}

\* The results of the runs in which every frame shows a body, and neither
\* hands nor a face are detected (no landmarks in their results).
BodyPose == Some(Some(<<<<4, 5, 20>>>>))
NoHands == Some(Null)
NoFace == Some(Null)

\* Responses of GET /health: the fetch fails, or a response arrives with an
\* HTTP status and a body (JSON with a status field, or not JSON at all).
HealthResponses ==
    {[net |-> "fail", httpOk |-> FALSE, body |-> "none"]}
    \cup [net : {"ok"}, httpOk : BOOLEAN, body : {"ok", "down", "notjson"}]

\* APIClient.healthCheck: the parsed body, or null on any exception.  The
\* HTTP status is not looked at.
healthCheck(resp) ==
    IF resp.net = "fail" \/ resp.body = "notjson" THEN "null" ELSE resp.body

\* ----------------------------------------------------------------- Init
Init ==
    /\ isRunning = FALSE
    /\ status = StatusChecking
    /\ translation = TranslationPlaceholder
    /\ words = WordsEmpty
    /\ poseDetector = 0
    /\ startPc = [i \in Invocations |-> "idle"]
    /\ health = "pending"
    /\ srcObject = "none"
    /\ metaOwner = 0
    /\ metaLoading = FALSE
    /\ isInitialized = [d \in Detectors |-> FALSE]
    /\ onFrameCallback = [d \in Detectors |-> FALSE]
    /\ loops = [d \in Detectors |-> 0]
    /\ frameBuffer = [d \in Detectors |-> <<>>]
    /\ pushed = [d \in Detectors |-> 0]
    /\ currentHandsData = [d \in Detectors |-> Null]
    /\ currentPoseData = [d \in Detectors |-> Null]
    /\ currentFaceData = [d \in Detectors |-> Null]
    /\ released = <<>>
    /\ submitted = <<>>
    /\ inFlight = {}
    /\ stale = {}
    /\ failed = {}

\* ------------------------------------------------------- App.checkAPIHealth
\* The continuation after `await this.apiClient.healthCheck()`.
checkAPIHealth(resp) ==
    /\ health = "pending"
    /\ LET ok == healthCheck(resp) # "null" /\ healthCheck(resp) = "ok" IN
         /\ health' = IF ok THEN "ok" ELSE "failed"
         /\ status' = IF ok THEN StatusReady ELSE StatusApiFailed
    /\ UNCHANGED <<isRunning, translation, words, poseDetector>>
    /\ UNCHANGED <<startVars, detVars, subVars>>

\* ---------------------------------------------------------------- App.start
\* start() up to `await getUserMedia(...)`.  start() runs on a click on the
\* start button, which is hidden exactly while isRunning holds: start() hides
\* it where it sets isRunning (lines 72-73), stop() shows it again where it
\* clears isRunning (lines 104, 111).
StartCall(i) ==
    /\ ~isRunning
    /\ startPc[i] = "idle"
    /\ \A j \in Invocations : j < i => startPc[j] # "idle"
    /\ startPc' = [startPc EXCEPT ![i] = "camera"]
    /\ status' = StatusRequesting
    /\ UNCHANGED <<isRunning, translation, words, poseDetector, health>>
    /\ UNCHANGED <<srcObject, metaOwner, metaLoading, detVars, subVars>>

\* getUserMedia rejects (permission denied): the catch block.
CameraDenied(i) ==
    /\ startPc[i] = "camera"
    /\ startPc' = [startPc EXCEPT ![i] = "failed"]
    /\ status' = StatusError
    /\ UNCHANGED <<isRunning, translation, words, poseDetector, health>>
    /\ UNCHANGED <<srcObject, metaOwner, metaLoading, detVars, subVars>>

\* The detector `new PoseDetector(...)` of invocation i creates.
NewDetector(i) == i

\* getUserMedia resolves: a new PoseDetector replaces this.poseDetector, the
\* stream goes to the video, the onloadedmetadata handler is installed.
CameraGranted(i) ==
    /\ startPc[i] = "camera"
    /\ startPc' = [startPc EXCEPT ![i] = "meta"]
    /\ status' = StatusInitializing
    /\ poseDetector' = NewDetector(i)
    /\ srcObject' = "live"
    /\ metaOwner' = i
    /\ metaLoading' = TRUE
    /\ UNCHANGED <<isRunning, translation, words, health, detVars, subVars>>

\* What the rest of start() does once poseDetector.initialize() has resolved
\* (lines 67-75): callback, processFrame(), isRunning, status.
StartRunning(i) ==
    /\ isInitialized' = [isInitialized EXCEPT ![poseDetector] = TRUE]
    /\ onFrameCallback' = [onFrameCallback EXCEPT ![poseDetector] = TRUE]
    /\ loops' = [loops EXCEPT ![poseDetector] = @ + 1]
    /\ isRunning' = TRUE
    /\ status' = StatusActive
    /\ startPc' = [startPc EXCEPT ![i] = "done"]

\* poseDetector.initialize() throws (a MediaPipe constructor is missing):
\* the catch block.
StartInitError(i) ==
    /\ status' = StatusError
    /\ startPc' = [startPc EXCEPT ![i] = "failed"]
    /\ UNCHANGED <<isRunning, isInitialized, onFrameCallback, loops>>

\* The video's loadedmetadata event: the installed handler resolves the
\* promise of the invocation that installed it, and that invocation runs to
\* its end: initialize() has no await inside, so no other task interleaves.
MetadataLoaded ==
    /\ metaLoading
    /\ startPc[metaOwner] = "meta"
    /\ metaLoading' = FALSE
    /\ \/ StartRunning(metaOwner)
       \/ StartInitError(metaOwner)
    /\ UNCHANGED <<translation, words, poseDetector, health, srcObject,
                   metaOwner, frameBuffer, pushed, dataVars, subVars>>

\* ---------------------------------------------------------- App.onFrameBatch
\* A hand-off that puts the new batch in front of the earlier submissions.
onFrameBatchNewestFirst(b) ==
    IF ~isRunning
    THEN UNCHANGED <<status, submitted, inFlight>>
    ELSE /\ status' = StatusProcessing
         /\ submitted' = <<b>> \o submitted
         /\ inFlight' = inFlight \cup {b}

\* A hand-off without the test of isRunning.
onFrameBatchUnguarded(b) ==
    /\ status' = StatusProcessing
    /\ submitted' = Append(submitted, b)
    /\ inFlight' = inFlight \cup {b}

\* onFrameBatch(frames) up to `await this.apiClient.translate(frames)`, for
\* the batch with number b: the call of translate() is part of it.
onFrameBatch(b) ==
    IF ~isRunning
    THEN UNCHANGED <<status, submitted, inFlight>>
    ELSE /\ status' = StatusProcessing
         /\ submitted' = Append(submitted, b)
         /\ inFlight' = inFlight \cup {b}

\* translate() resolves with a well-formed TranslationResult: the rest of
\* the try block.
TranslateResolved(b) ==
    /\ b \in inFlight
    /\ inFlight' = inFlight \ {b}
    /\ stale' = stale \ {b}
    /\ translation' = b
    /\ words' = b
    /\ status' = StatusActive
    /\ UNCHANGED <<isRunning, poseDetector, health, released, submitted, failed>>
    /\ UNCHANGED <<startVars, detVars>>

\* A catch block that submits the failed batch again.
TranslateRejectedRetry(b) ==
    /\ b \in inFlight
    /\ submitted' = Append(submitted, b)
    /\ failed' = failed \cup {b}
    /\ status' = StatusTranslationFailed
    /\ UNCHANGED <<isRunning, translation, words, poseDetector, health>>
    /\ UNCHANGED <<released, inFlight, stale, startVars, detVars>>

\* A catch block that ends the session.
TranslateRejectedHalts(b) ==
    /\ b \in inFlight
    /\ inFlight' = inFlight \ {b}
    /\ stale' = stale \ {b}
    /\ failed' = failed \cup {b}
    /\ status' = StatusTranslationFailed
    /\ isRunning' = FALSE
    /\ UNCHANGED <<translation, words, poseDetector, health>>
    /\ UNCHANGED <<released, submitted, startVars, detVars>>

\* translate() rejects (network error, non-2xx response, body not JSON):
\* the catch block.
TranslateRejected(b) ==
    /\ b \in inFlight
    /\ inFlight' = inFlight \ {b}
    /\ stale' = stale \ {b}
    /\ failed' = failed \cup {b}
    /\ status' = StatusTranslationFailed
    /\ UNCHANGED <<isRunning, translation, words, poseDetector, health>>
    /\ UNCHANGED <<released, submitted, startVars, detVars>>

\* ------------------------------------------ PoseDetector.extractSkeletalData
\* A rounding that adds one half too often: Math.round(x * 1000 + 0.5) / 1000.
RoundCoordUp(k) == ((k + 10) \div 10) * 10

\* Math.round(x * 1000) / 1000 of a coordinate of k ten-thousandths, in
\* ten-thousandths.  x * 1000 is k / 10, and Math.round(v) is the integer
\* nearest to v, the greater one of the two when v lies halfway:
\* floor(v + 1/2).
RoundCoord(k) == ((k + 5) \div 10) * 10

\* lm => [round(lm.x), round(lm.y), round(lm.z)] (lines 145-149, 155-159).
RoundPoint(lm) == <<RoundCoord(lm[1]), RoundCoord(lm[2]), RoundCoord(lm[3])>>
RoundPoints(landmarks) == [k \in 1..Len(landmarks) |-> RoundPoint(landmarks[k])]

\* pose_landmarks of the record (lines 144-150); pose is currentPoseData.
PoseLandmarksOf(pose) ==
    IF pose.set /\ pose.val.set THEN Some(RoundPoints(pose.val.val)) ELSE Null

\* A handedness test the wrong way round.
IsLeftSwapped(hand) == hand.label # "Left"

\* handedness === 'Left' (line 161).
IsLeft(hand) == hand.label = "Left"

\* left_hand (left = TRUE) or right_hand of the record (lines 152-167): the
\* forEach assigns in order, so the last hand of that handedness stays.
HandOf(hands, left) ==
    IF hands.set /\ hands.val.set
    THEN LET hs == hands.val.val
             mine == {k \in 1..Len(hs) : IsLeft(hs[k]) = left}
         IN IF mine = {} THEN Null
            ELSE LET last == CHOOSE k \in mine : \A j \in mine : j <= k
                 IN Some(RoundPoints(hs[last].landmarks))
    ELSE Null

\* face_landmarks of the record (lines 169-179): the key points of the first
\* face.
FaceLandmarksOf(face) ==
    IF face.set /\ face.val.set /\ Len(face.val.val) > 0
    THEN Some([k \in 1..Len(keyIndices) |->
                  RoundPoint(face.val.val[1][keyIndices[k]])])
    ELSE Null

\* A frame_id that counts on over the releases.
FrameIdOverall(d) == pushed[d]

\* frame_id: this.frameBuffer.length (line 137).
FrameId(d) == Len(frameBuffer[d])

\* The record extractSkeletalData composes; the timestamp Date.now() is the
\* number of records composed so far.  extractSkeletalData runs inside
\* onPoseResults: it reads the hands and pose results of this iteration,
\* which the step has stored already (the primed variables), and the face
\* result of the iteration before.
ExtractRecord(d) ==
    [timestamp |-> TotalPushed + 1,
     frame_id |-> FrameId(d),
     pose_landmarks |-> PoseLandmarksOf(currentPoseData'[d]),
     left_hand |-> HandOf(currentHandsData'[d], TRUE),
     right_hand |-> HandOf(currentHandsData'[d], FALSE),
     face_landmarks |-> FaceLandmarksOf(currentFaceData[d])]

\* A release that forgets to reset the buffer.
BufferAfterReleaseKept(buf) == buf

\* The buffer after a release (line 187).
BufferAfterRelease(buf) == <<>>

extractSkeletalData(d) ==
    LET buf == Append(frameBuffer[d], ExtractRecord(d)) IN
    /\ pushed' = [pushed EXCEPT ![d] = @ + 1]
    /\ IF Len(buf) >= FRAME_BATCH_SIZE
       THEN /\ IF onFrameCallback[d]
               THEN /\ released' = Append(released, [det |-> d, frames |-> buf])
                    /\ onFrameBatch(Len(released) + 1)
               ELSE UNCHANGED <<released, status, submitted, inFlight>>
            /\ frameBuffer' = [frameBuffer EXCEPT ![d] = BufferAfterRelease(buf)]
       ELSE /\ frameBuffer' = [frameBuffer EXCEPT ![d] = buf]
            /\ UNCHANGED <<released, status, submitted, inFlight>>

\* ------------------------------------------------ PoseDetector.on*Results
\* A send() whose handler is not called (r = Null) leaves the data as it is.
onHandsResults(d, r) ==
    currentHandsData' = IF r.set THEN [currentHandsData EXCEPT ![d] = r]
                        ELSE currentHandsData

onFaceResults(d, r) ==
    currentFaceData' = IF r.set THEN [currentFaceData EXCEPT ![d] = r]
                       ELSE currentFaceData

onPoseResults(d, r) ==
    /\ currentPoseData' = [currentPoseData EXCEPT ![d] = r]
    /\ extractSkeletalData(d)

\* ------------------------------------------------- PoseDetector.processFrame
\* One iteration of a processFrame chain of detector d with the results h, p
\* and f of the three sends, in the order of the awaits: hands, pose (which
\* runs onPoseResults, hence extractSkeletalData), face; then the next
\* iteration is requested with requestAnimationFrame.  Nothing ends a chain.
processFrameWith(d, h, p, f) ==
    /\ loops[d] > 0
    /\ isInitialized[d]
    /\ onHandsResults(d, h)
    /\ onPoseResults(d, p)
    /\ onFaceResults(d, f)
    /\ UNCHANGED <<isRunning, translation, words, poseDetector, health>>
    /\ UNCHANGED <<startVars, isInitialized, onFrameCallback, loops>>
    /\ UNCHANGED <<stale, failed>>

\* An iteration that waits until no submission is outstanding.
processFrameAwaitsSubmission(d) ==
    /\ inFlight = {}
    /\ TotalPushed < MaxFrames
    /\ processFrameWith(d, NoHands, BodyPose, NoFace)

\* An iteration in a run where every frame shows a body only.
processFrame(d) ==
    /\ TotalPushed < MaxFrames
    /\ processFrameWith(d, NoHands, BodyPose, NoFace)

\* An iteration with any of the results the families may deliver.
DetectFrame(d) ==
    /\ TotalPushed < MaxDetectFrames
    /\ \E h \in HandsInputs, p \in PoseInputs, f \in FaceInputs :
           processFrameWith(d, h, p, f)

\* --------------------------------------------------------- PoseDetector.stop
PoseDetectorStop == IF srcObject # "none" THEN "ended" ELSE srcObject

\* ----------------------------------------------------------------- App.stop
Stop ==
    /\ isRunning' = FALSE
    /\ srcObject' = IF poseDetector # 0 THEN PoseDetectorStop ELSE srcObject
    /\ status' = StatusStopped
    /\ translation' = TranslationPlaceholder
    /\ words' = WordsEmpty
    /\ stale' = inFlight
    /\ UNCHANGED <<poseDetector, health, startPc, metaOwner, metaLoading>>
    /\ UNCHANGED <<detVars, released, submitted, inFlight, failed>>

\* ----------------------------------------------------------------- Next
Next ==
    \/ \E resp \in HealthResponses : checkAPIHealth(resp)
    \/ \E i \in Invocations : StartCall(i)
    \/ \E i \in Invocations : CameraDenied(i)
    \/ \E i \in Invocations : CameraGranted(i)
    \/ MetadataLoaded
    \/ \E d \in Detectors : processFrame(d)
    \/ \E b \in inFlight : TranslateResolved(b)
    \/ \E b \in inFlight : TranslateRejected(b)
    \/ Stop

Spec == Init /\ [][Next]_vars

\* The first session with detection results of every kind: the families
\* deliver landmarks, a result without landmarks, or (hands, face) nothing.
NextExtract ==
    \/ StartCall(1)
    \/ CameraGranted(1)
    \/ MetadataLoaded
    \/ \E d \in Detectors : DetectFrame(d)

SpecExtract == Init /\ [][NextExtract]_vars

\* ================================================================ claims
NoStartInProgress == \A i \in Invocations : startPc[i] \in {"idle", "done", "failed"}
ReleasedBy(d) == {k \in 1..Len(released) : released[k].det = d}
Settles(b) == TranslateResolved(b) \/ TranslateRejected(b)

\* C1: at most one submission (a translate() call that has not settled) is
\* in flight at any time.
C1_AtMostOneInFlight == Cardinality(inFlight) <= 1

\* C2: a submission that was in flight when stop() was invoked leaves the
\* displayed translation and words as stop() set them when it settles while
\* the session is stopped.
C2_StoppedResultDiscarded ==
    [][\A b \in stale : (Settles(b) /\ ~isRunning)
                          => UNCHANGED <<translation, words>>]_vars

\* C3: a submission issued before a stop() changes neither the translation,
\* the words nor the status of the session a later start() began.
C3_StaleSessionResultDiscarded ==
    [][\A b \in stale : (Settles(b) /\ isRunning)
                          => UNCHANGED <<translation, words, status>>]_vars

\* C4: after N pushes into a detector's buffer exactly N div B batches have
\* been released from it, each of exactly B records, and the buffer holds the
\* N mod B records pushed since the last release (none right after one).
C4_FullBatchesOnly ==
    /\ \A d \in Detectors :
          /\ Cardinality(ReleasedBy(d)) = pushed[d] \div FRAME_BATCH_SIZE
          /\ Len(frameBuffer[d]) = pushed[d] % FRAME_BATCH_SIZE
    /\ \A k \in 1..Len(released) : Len(released[k].frames) = FRAME_BATCH_SIZE

\* C4's case: a detector has released two batches and holds one more record.
C4_Witness ==
    \E d \in Detectors :
        /\ pushed[d] = 2 * FRAME_BATCH_SIZE + 1
        /\ Cardinality(ReleasedBy(d)) = 2
        /\ Len(frameBuffer[d]) = 1

\* C5: stop() with 0 < k < B records buffered releases one short batch
\* holding exactly those k records.
C5_StopFlushesShortBatch ==
    [][(/\ Stop
        /\ poseDetector # 0
        /\ Len(frameBuffer[poseDetector]) \in 1..(FRAME_BATCH_SIZE - 1))
       => (/\ Len(released') = Len(released) + 1
           /\ released'[Len(released')].frames = frameBuffer[poseDetector]
           /\ frameBuffer'[poseDetector] = <<>>)]_vars

\* C6: between stop() and the next start() no frame record is extracted or
\* pushed.
C6_StopHaltsCapture ==
    [][(~isRunning /\ status = StatusStopped /\ NoStartInProgress)
          => pushed' = pushed]_vars

\* C7: once the health probe has failed, start() is refused: no capture loop
\* runs and the session is not Active.
C7_FailedProbeRefusesStart ==
    health = "failed" => (~isRunning /\ TotalLoops = 0 /\ status # StatusActive)

\* C8: a batch released while a submission is in flight is held back (in a
\* pending slot) instead of being handed to translate(): a submission starts
\* only when none is in flight.
C8_ReleasedBatchHeldWhileInFlight ==
    [][\A b \in inFlight' \ inFlight : inFlight = {}]_vars

\* C9: delivery is at most once without redelivery: every submission carries
\* a batch released later than every batch submitted before it, and a batch
\* whose submission failed is not in flight again.
C9_AtMostOnceNoRedelivery ==
    /\ \A i, j \in 1..Len(submitted) : i < j => submitted[i] < submitted[j]
    /\ \A i \in 1..Len(submitted) : submitted[i] \in 1..Len(released)
    /\ failed \cap inFlight = {}

\* C9's case: a submission failed and a later batch was submitted after it.
C9_Witness ==
    \E b \in failed : \E i \in 1..Len(submitted) :
        /\ submitted[i] > b
        /\ Cardinality({j \in 1..Len(submitted) : submitted[j] = b}) = 1

\* C10: a failed submission halts neither the session nor the capture loop,
\* and after a failure a batch released while running is still submitted.
C10_FailureDoesNotHalt ==
    [][/\ \A b \in inFlight : TranslateRejected(b)
            => UNCHANGED <<isRunning, loops, isInitialized, onFrameCallback,
                           frameBuffer, pushed>>
       /\ (failed # {} /\ isRunning /\ Len(released') > Len(released))
            => (/\ submitted' = Append(submitted, Len(released'))
                /\ Len(released') \in inFlight')]_vars

\* C10's case: after a failure the session runs, a frame has been buffered
\* and a later batch is in flight.
C10_Witness ==
    \E b \in failed : \E c \in inFlight :
        /\ c > b
        /\ isRunning
        /\ \E d \in Detectors : loops[d] > 0 /\ Len(frameBuffer[d]) > 0

\* C11: every submission that settles while the session runs, resolved or
\* rejected, puts the status back to Active.
C11_SettledSubmissionBackToActive ==
    [][\A b \in inFlight : (Settles(b) /\ isRunning)
                             => status' = StatusActive]_vars

\* C12: the capture loop never waits for the network: while a submission is
\* outstanding (also right after the release that started it) the next
\* iteration of every live processFrame chain can run.
C12_CaptureNotPausedBySubmission ==
    \A d \in Detectors :
        (loops[d] > 0 /\ inFlight # {} /\ TotalPushed < MaxFrames)
            => ENABLED processFrame(d)

\* C12's case: a record was buffered by the detector whose batch is still
\* in flight.
C12_Witness ==
    \E b \in inFlight :
        /\ loops[released[b].det] > 0
        /\ Len(frameBuffer[released[b].det]) > 0

\* C13: at most one processFrame chain is live at any time.
C13_SingleCaptureLoop == TotalLoops <= 1

\* C14: without backpressure submission order is release order: a submission
\* started while none is outstanding carries the batch just released, which
\* was released after every batch submitted before, and is appended last.
C14_SubmissionOrderIsReleaseOrder ==
    [][(submitted' # submitted /\ inFlight = {})
          => (/\ Len(released') = Len(released) + 1
              /\ submitted' = Append(submitted, Len(released'))
              /\ \A i \in 1..Len(submitted) : submitted[i] < Len(released'))]_vars

\* C14's case: two batches were submitted, the first has settled and only
\* the second is outstanding.
C14_Witness ==
    /\ Len(submitted) = 2
    /\ inFlight = {submitted[2]}
    /\ translation = submitted[1]
    /\ stale = {}

\* C15: the i-th record (0-based) of every released batch, and of every
\* buffer, has frame_id i.
C15_FrameIdIsPosition ==
    /\ \A k \in 1..Len(released) : \A i \in 1..Len(released[k].frames) :
           released[k].frames[i].frame_id = i - 1
    /\ \A d \in Detectors : \A i \in 1..Len(frameBuffer[d]) :
           frameBuffer[d][i].frame_id = i - 1

\* C15's case: a detector has released a second batch (the index restarted).
C15_Witness ==
    \E d \in Detectors : Cardinality(ReleasedBy(d)) >= 2

\* A start() invocation fails in this step.
StartFails(i) ==
    /\ startPc[i] \in {"camera", "meta"}
    /\ startPc'[i] = "failed"

\* C16: after a failed start() of a session that was not running, the
\* session is not running, no capture loop is active and the status shows
\* the error.
C16_FailedStartLeavesNothingRunning ==
    [][\A i \in Invocations : (StartFails(i) /\ ~isRunning)
          => (/\ ~isRunning'
              /\ SumOver(loops', Detectors) = 0
              /\ status' = StatusError)]_vars

\* C17: the probe leads to Ready exactly when a response arrived that is
\* successful (2xx) and whose body has status 'ok', and to the Error status
\* otherwise.
C17_ReadyOnlyOnSuccessfulOk ==
    [][\A resp \in HealthResponses : checkAPIHealth(resp)
          => IF resp.net = "ok" /\ resp.httpOk /\ resp.body = "ok"
             THEN status' = StatusReady
             ELSE status' = StatusApiFailed]_vars

\* The record the latest extraction of detector d composed.
LastRecord(d) ==
    IF frameBuffer[d] # <<>>
    THEN frameBuffer[d][Len(frameBuffer[d])]
    ELSE LET k == CHOOSE m \in ReleasedBy(d) : \A j \in ReleasedBy(d) : j <= m
         IN released[k].frames[Len(released[k].frames)]

\* The latest hands result there is once a send delivered h.
HandsAfter(d, h) == IF h.set THEN h ELSE currentHandsData[d]
HasHand(hands, label) ==
    /\ hands.set
    /\ hands.val.set
    /\ \E k \in 1..Len(hands.val.val) : hands.val.val[k].label = label

\* C18: every pose result pushes exactly one record; a field of the record
\* is set exactly when its family's latest result holds landmarks for it
\* (pose landmarks, a left hand, a right hand, a first face), and is null
\* when the family detected nothing or has not produced a result yet.
C18_AbsentFamilyIsNull ==
    [][\A d \in Detectors : \A h \in HandsInputs : \A p \in PoseInputs :
       \A f \in FaceInputs :
          processFrameWith(d, h, p, f)
          => /\ pushed'[d] = pushed[d] + 1
             /\ \/ frameBuffer'[d] = Append(frameBuffer[d], LastRecord(d)')
                \/ /\ frameBuffer'[d] = <<>>
                   /\ Len(released') = Len(released) + 1
                   /\ released'[Len(released')].frames
                         = Append(frameBuffer[d], LastRecord(d)')
             /\ LastRecord(d)'.pose_landmarks.set = p.val.set
             /\ LastRecord(d)'.left_hand.set = HasHand(HandsAfter(d, h), "Left")
             /\ LastRecord(d)'.right_hand.set = HasHand(HandsAfter(d, h), "Right")
             /\ LastRecord(d)'.face_landmarks.set
                   = (/\ currentFaceData[d].set
                      /\ currentFaceData[d].val.set
                      /\ Len(currentFaceData[d].val.val) > 0)]_vars

\* C18's case: a full batch of pose-only records: pose landmarks set, both
\* hands and the face null, frame_id 0 .. B-1.
C18_Witness ==
    \E k \in 1..Len(released) :
        /\ Len(released[k].frames) = FRAME_BATCH_SIZE
        /\ \A i \in 1..Len(released[k].frames) :
              LET rec == released[k].frames[i] IN
              /\ rec.frame_id = i - 1
              /\ rec.pose_landmarks.set
              /\ ~rec.left_hand.set
              /\ ~rec.right_hand.set
              /\ ~rec.face_landmarks.set

\* Rounding to thousandths with ties away from zero, in ten-thousandths.
RoundHalfAwayFromZero(k) ==
    IF k >= 0 THEN ((k + 5) \div 10) * 10 ELSE 0 - (((0 - k) + 5) \div 10) * 10
HalfAwayPoint(lm) ==
    <<RoundHalfAwayFromZero(lm[1]), RoundHalfAwayFromZero(lm[2]),
      RoundHalfAwayFromZero(lm[3])>>
HalfAwayPoints(landmarks) ==
    [k \in 1..Len(landmarks) |-> HalfAwayPoint(landmarks[k])]

\* C19: every pose and hand coordinate of a record is the input coordinate
\* rounded to 3 decimal places, ties away from zero.
C19_RoundsHalfAwayFromZero ==
    [][\A d \in Detectors : \A h \in HandsInputs : \A p \in PoseInputs :
       \A f \in FaceInputs :
          processFrameWith(d, h, p, f)
          => /\ p.val.set
                  => LastRecord(d)'.pose_landmarks.val = HalfAwayPoints(p.val.val)
             /\ LastRecord(d)'.left_hand.set
                  => LastRecord(d)'.left_hand.val = HalfAwayPoints(<<HandPoint>>)
             /\ LastRecord(d)'.right_hand.set
                  => LastRecord(d)'.right_hand.val = HalfAwayPoints(<<HandPoint>>)]_vars

\* The coordinates a record holds.
FieldCoords(field) ==
    IF field.set
    THEN {field.val[k][c] : k \in 1..Len(field.val), c \in 1..3}
    ELSE {}
RecordCoords(rec) ==
    FieldCoords(rec.pose_landmarks) \cup FieldCoords(rec.left_hand)
    \cup FieldCoords(rec.right_hand) \cup FieldCoords(rec.face_landmarks)
AllRecords ==
    UNION {{frameBuffer[d][i] : i \in 1..Len(frameBuffer[d])} : d \in Detectors}
    \cup UNION {{released[k].frames[i] : i \in 1..Len(released[k].frames)} :
                k \in 1..Len(released)}

\* C20: rounding is idempotent: the rounding of extractSkeletalData leaves
\* every coordinate of every record it composed unchanged.
C20_RoundingIdempotent ==
    \A rec \in AllRecords : \A v \in RecordCoords(rec) : RoundCoord(v) = v

\* C20's case: the latest record of a detector holds coordinates of a pose, a
\* hand and a face, and its pose landmark was composed from a landmark whose
\* coordinates were multiples of 0.001 already (0.002, -0.002, 0.001).
C20_Witness ==
    \E d \in Detectors :
        /\ pushed[d] > 0
        /\ currentPoseData[d] = Some(Some(<<<<20, 0 - 20, 10>>>>))
        /\ LastRecord(d).pose_landmarks = Some(<<<<20, 0 - 20, 10>>>>)
        /\ LastRecord(d).left_hand.set
        /\ LastRecord(d).face_landmarks.set

\* The batch numbers passed to translate() so far.
SubmittedBatches == {submitted[i] : i \in 1..Len(submitted)}

\* C21: translate() is called only at a moment when isRunning is true: a step
\* that starts a submission is taken while the session runs, and a batch
\* released while the session does not run (after stop(), or before a start()
\* has completed) starts none.
C21_NoSubmissionWhileNotRunning ==
    [][/\ (submitted' # submitted \/ inFlight' \ inFlight # {}) => isRunning
       /\ (Len(released') > Len(released) /\ ~isRunning)
             => UNCHANGED <<submitted, inFlight, status>>]_vars

\* C21's case: a batch was submitted while the session ran, the session was
\* stopped, and a batch released after that was not submitted.
C21_Witness ==
    /\ ~isRunning
    /\ status = StatusStopped
    /\ \E j, k \in 1..Len(released) :
          /\ j < k
          /\ j \in SubmittedBatches
          /\ k \notin SubmittedBatches

\* The statuses of a running session, and those a session that is not
\* running must not show.
RunningStatuses == {StatusActive, StatusProcessing, StatusTranslationFailed}
ActiveStatuses == {StatusActive, StatusProcessing}

\* C22: the status is consistent with the running flag: while the session
\* runs the status is Active, Processing or the translation-failed message,
\* and while it does not run the status is neither Active nor Processing.
C22_StatusConsistentWithRunning ==
    IF isRunning THEN status \in RunningStatuses
    ELSE status \notin ActiveStatuses

====
